---- MODULE Spec2Model ----
(***************************************************************************)
(* Model of the agent workflow runner of src/App.tsx (component App) and   *)
(* of the services it calls (src/unnamed/part_001: runAgent,               *)
(* generateFollowUpQuestions), over the types of src/unnamed/part_000.     *)
(*                                                                         *)
(* The state is the React state of App that the workflow touches.  Every   *)
(* state setter call (setAgents, setIsProcessing, ...) is an assignment.   *)
(* An async handler is cut at its await points; the synchronous code       *)
(* between two awaits runs to completion, so while a run is at a           *)
(* synchronous position (pc "loop" or "aggregate") no other handler and no *)
(* other completion may take a step (guard Quiet).                         *)
(***************************************************************************)
EXTENDS Integers, Sequences, FiniteSets, TLC

\* ----- bounds of the model ----------------------------------------------
MaxAgents == 2   \* tasks in the list
MaxRuns == 2     \* invocations of runWorkflow that pass its early return
MaxClock == 2    \* readings of the clock
MaxUserOps == 2  \* documents loaded or cleared, tasks edited or deleted
MaxFollowUpLen == 4  \* characters of a text of the follow-up call
MaxLoads == 2    \* files chosen and read
MaxOcrs == 2     \* invocations of handleOcr that pass its early return
MaxPages == 2    \* pages of a PDF
MaxRenders == 3  \* page renders begun by the page render effect

\* ----- values -----------------------------------------------------------
\* null, for every nullable field (Agent.output, Agent.error, ...)
Null == [kind |-> "null"]

Pending == "Pending"
Running == "Running"
Success == "Success"
Error == "Error"
AgentStatus == {Pending, Running, Success, Error}

EMPTY == "EMPTY"
PDF == "PDF"
TXT == "TXT"
PASTE == "PASTE"

\* templates offered by the "add agent" buttons (name + prompt)
DEFAULT_AGENTS ==
  { [name |-> "Sentiment Analyzer", prompt |-> "p0"],
    [name |-> "Entity Extractor", prompt |-> "p0"] }

\* the selectable models; the first is the default of a new agent
MODEL_OPTIONS == <<"m0", "m1">>

\* prompt texts a user may type into an agent's textarea
Prompts == {"p0", "p1"}

\* contents of the paste textarea when "load pasted content" is clicked:
\* empty, blank, and two documents
PasteInputs == {"", " ", "d1", "d2"}

\* String.prototype.trim on the paste inputs
Trim(s) == IF s = " " THEN "" ELSE s

\* ----- texts returned by the provider -----------------------------------
\* A text is a sequence of tokens: "w" is ordinary text, "OPEN" is the
\* fence "```json\n", "CLOSE" is "\n```", anything else is fence content.
\* JSON documents that may stand between the fences, and one that is none
J_POS == "{\"sentiment\":\"Positive\"}"
J_ENT == "[{\"name\":\"Acme\",\"type\":\"Org\"},{\"name\":\"X\"}]"
J_BAD == "{not json"
J_NEG == "{\"sentiment\":\"NEGATIVE\"}"
J_UNK == "{\"sentiment\":\"Unknown\"}"
J_EMPTYS == "{\"sentiment\":\"\"}"
J_NUM == "{\"sentiment\":1}"
J_MIX == "[null,\"s\",{\"name\":1,\"type\":\"T\"},{\"name\":\"B\",\"type\":\"Loc\"},{\"name\":\"A\",\"type\":\"Org\"}]"
J_ARR0 == "[]"

\* JSON values: [kind |-> "null"], [kind |-> "str", s |-> ...],
\* [kind |-> "num", n |-> ...],
\* [kind |-> "obj", f |-> field name :> value], [kind |-> "arr", items |-> seq]
JStr(x) == [kind |-> "str", s |-> x]
JNum(x) == [kind |-> "num", n |-> x]
JObj(fields) == [kind |-> "obj", f |-> fields]
JArr(xs) == [kind |-> "arr", items |-> xs]

\* JSON.parse of the text between the fences: whether it returns, and what
JsonOk(content) ==
  content \in { <<J_POS>>, <<J_ENT>>, <<J_NEG>>, <<J_UNK>>, <<J_EMPTYS>>,
                <<J_NUM>>, <<J_MIX>>, <<J_ARR0>> }

JsonValue(content) ==
  CASE content = <<J_POS>> -> JObj([sentiment |-> JStr("Positive")])
    [] content = <<J_NEG>> -> JObj([sentiment |-> JStr("NEGATIVE")])
    [] content = <<J_UNK>> -> JObj([sentiment |-> JStr("Unknown")])
    [] content = <<J_EMPTYS>> -> JObj([sentiment |-> JStr("")])
    [] content = <<J_NUM>> -> JObj([sentiment |-> JNum(1)])
    [] content = <<J_MIX>> ->
         JArr(<< Null, JStr("s"),
                 JObj([name |-> JNum(1), type |-> JStr("T")]),
                 JObj([name |-> JStr("B"), type |-> JStr("Loc")]),
                 JObj([name |-> JStr("A"), type |-> JStr("Org")]) >>)
    [] content = <<J_ARR0>> -> JArr(<< >>)
    [] OTHER ->
         JArr(<< JObj([name |-> JStr("Acme"), type |-> JStr("Org")]),
                 JObj([name |-> JStr("X")]) >>)

\* The tokens in which the regular expression of line 295 finds "```json\n"
\* and those in which it finds "\n```".  "NLOPEN" is an opening fence at the
\* start of a line, "\n```json\n": it holds both.
OpeningFences == {"OPEN", "NLOPEN"}
ClosingFences == {"CLOSE", "NLOPEN"}

\* a match that takes the last opening fence of the text
LastOpen(t) ==
  IF \E k \in 1..Len(t) : t[k] \in OpeningFences
  THEN CHOOSE k \in 1..Len(t) :
         t[k] \in OpeningFences /\ \A j \in (k+1)..Len(t) : t[j] \notin OpeningFences
  ELSE 0

\* output.match(/```json\n([\s\S]*?)\n```/): the first opening fence and the
\* first closing fence after it; group 1 is what lies between.  0 when there
\* is no match.
FirstOpen(t) ==
  IF \E k \in 1..Len(t) : t[k] \in OpeningFences
  THEN CHOOSE k \in 1..Len(t) :
         t[k] \in OpeningFences /\ \A j \in 1..(k-1) : t[j] \notin OpeningFences
  ELSE 0

FirstCloseAfter(t, o) ==
  IF \E k \in (o+1)..Len(t) : t[k] \in ClosingFences
  THEN CHOOSE k \in (o+1)..Len(t) :
         t[k] \in ClosingFences /\ \A j \in (o+1)..(k-1) : t[j] \notin ClosingFences
  ELSE 0

\* an extraction that hands on a block it could not decode, as a string
ExtractJsonRaw(t) ==
  LET o == FirstOpen(t)
      c == IF o = 0 THEN 0 ELSE FirstCloseAfter(t, o)
      g == IF c = 0 THEN <<>> ELSE SubSeq(t, o + 1, c - 1)
  IN  IF o = 0 \/ c = 0 THEN Null
      ELSE IF g = <<>> THEN Null
      ELSE IF JsonOk(g) THEN JsonValue(g)
      ELSE JStr("raw")

\* lines 293-301 of runWorkflow: the structured-output extraction
ExtractJson(t) ==
  LET o == FirstOpen(t)
      c == IF o = 0 THEN 0 ELSE FirstCloseAfter(t, o)
      g == IF c = 0 THEN <<>> ELSE SubSeq(t, o + 1, c - 1)
  IN  IF o = 0 \/ c = 0 THEN Null          \* no match
      ELSE IF g = <<>> THEN Null           \* jsonMatch[1] is ""
      ELSE IF JsonOk(g) THEN JsonValue(g)
      ELSE Null                            \* JSON.parse threw, caught

\* what generateContent may resolve with for an agent call
ProviderTexts == { <<"w">>, <<"w", "OPEN", J_POS, "CLOSE">> }

\* a wider choice of texts: every JSON document above between fences, a
\* block that is no JSON, an empty block, an opened block never closed, and
\* texts with two blocks (the second of the last begins where the first ends)
WideTexts ==
  { <<"w">>, <<"OPEN", "CLOSE">>, <<"w", "OPEN", J_BAD>>,
    <<"OPEN", J_BAD, "CLOSE", "w">>,
    <<"OPEN", J_BAD, "CLOSE", "w", "OPEN", J_POS, "CLOSE">>,
    <<"OPEN", J_NEG, "CLOSE", "w", "OPEN", J_POS, "CLOSE">>,
    <<"OPEN", J_NEG, "NLOPEN", J_POS, "CLOSE">> }
  \cup { <<"w", "OPEN", j, "CLOSE">> :
           j \in {J_POS, J_NEG, J_UNK, J_EMPTYS, J_NUM, J_ENT, J_MIX, J_ARR0} }

\* The text of the follow-up call is a sequence of characters: a hyphen, a
\* space, a newline, and "Q1", "Q2", "Q3", each standing for the words of one
\* question.  What generateContent may resolve with for the follow-up call:
FollowUpTexts == { <<"-", " ", "Q1">> }

\* the text the prompt of generateFollowUpQuestions asks for (part_001 line
\* 51): "- Q1\n- Q2\n\n- Q3"; and a text with four questions
ThreeQuestions ==
  <<"-", " ", "Q1", "\n", "-", " ", "Q2", "\n", "\n", "-", " ", "Q3">>

FourQuestions ==
  <<"-", " ", "Q1", "\n", "-", " ", "Q2", "\n", "-", " ", "Q3", "\n", "Q1">>

\* every text of up to MaxFollowUpLen characters, and the two above
FollowUpChars == {"-", " ", "\n", "Q1"}

WideFollowUpTexts ==
  UNION { [1..n -> FollowUpChars] : n \in 0..MaxFollowUpLen }
    \cup {ThreeQuestions, FourQuestions}

Text(t) == [kind |-> "text", v |-> t]

\* ----- the rendering of followUpQuestions (lines 599-606) ----------------
\* String.prototype.split('\n'): the pieces between the newlines
RECURSIVE SplitLines(_)
SplitLines(s) ==
  IF \E k \in 1..Len(s) : s[k] = "\n"
  THEN LET k == CHOOSE n \in 1..Len(s) :
                  s[n] = "\n" /\ \A j \in 1..(n-1) : s[j] # "\n"
       IN  <<SubSeq(s, 1, k - 1)>> \o SplitLines(SubSeq(s, k + 1, Len(s)))
  ELSE <<s>>

\* a trim that leaves the line as it is
TrimNothing(q) == q

\* String.prototype.trim(): without the white space at both ends
RECURSIVE TrimChars(_)
TrimChars(q) ==
  IF q = <<>> THEN q
  ELSE IF q[1] \in {" ", "\n"} THEN TrimChars(Tail(q))
  ELSE IF q[Len(q)] \in {" ", "\n"} THEN TrimChars(SubSeq(q, 1, Len(q) - 1))
  ELSE q

\* q.replace(/^- /, ''): without a hyphen and a space at its beginning
StripHyphen(q) ==
  IF Len(q) >= 2 /\ q[1] = "-" /\ q[2] = " " THEN SubSeq(q, 3, Len(q)) ELSE q

\* line 603: the list items; nothing is rendered for null or "" (line 599)
FollowUpItems(fq) ==
  IF fq = Null \/ fq.v = <<>> THEN <<>>
  ELSE LET kept == SelectSeq(SplitLines(fq.v), LAMBDA q : TrimChars(q) # <<>>)
       IN  [i \in 1..Len(kept) |-> StripHyphen(kept[i])]


\* ----- the aggregation of runWorkflow (lines 316-334) --------------------
\* JavaScript truthiness of a JSON value
Truthy(v) ==
  CASE v.kind = "null" -> FALSE
    [] v.kind = "str" -> v.s # ""
    [] v.kind = "num" -> v.n # 0
    [] OTHER -> TRUE

\* v?.sentiment: the field of an object, undefined (Null) otherwise
FieldOf(v, name) ==
  IF v.kind = "obj" /\ name \in DOMAIN v.f THEN v.f[name] ELSE Null

\* String(x) of a JSON value.  An array is its elements joined by commas
\* (null elements give ""); with two or more elements the result holds a
\* comma, so it is none of the labels compared below.
RECURSIVE JsToString(_)
JsToString(v) ==
  CASE v.kind = "str" -> v.s
    [] v.kind = "num" -> IF v.n = 0 THEN "0" ELSE IF v.n = 1 THEN "1" ELSE "n"
    [] v.kind = "null" -> "null"
    [] v.kind = "obj" -> "[object Object]"
    [] OTHER -> IF v.items = << >> THEN ""
                ELSE IF Len(v.items) > 1 THEN "a,b"
                ELSE IF v.items[1].kind = "null" THEN ""
                ELSE JsToString(v.items[1])

\* String.prototype.toLowerCase on the strings of the model
ToLowerCase(s) ==
  CASE s = "Positive" -> "positive"
    [] s = "NEGATIVE" -> "negative"
    [] s = "Unknown" -> "unknown"
    [] s = "[object Object]" -> "[object object]"
    [] OTHER -> s

\* String(x).toLowerCase()
LowerString(v) == ToLowerCase(JsToString(v))

\* a tally that compares the label as it is spelled
SentimentTallyCaseSensitive(v) ==
  LET s == JsToString(v)
  IN  IF s = "positive" THEN [positive |-> 1, negative |-> 0, neutral |-> 0]
      ELSE IF s = "negative" THEN [positive |-> 0, negative |-> 1, neutral |-> 0]
      ELSE [positive |-> 0, negative |-> 0, neutral |-> 1]

\* lines 323-326
SentimentTally(v) ==
  LET s == LowerString(v)
  IN  IF s = "positive" THEN [positive |-> 1, negative |-> 0, neutral |-> 0]
      ELSE IF s = "negative" THEN [positive |-> 0, negative |-> 1, neutral |-> 0]
      ELSE [positive |-> 0, negative |-> 0, neutral |-> 1]

\* Array.prototype.filter keeps the order of the elements it keeps
FilterSeq(xs, Keep(_)) == SelectSeq(xs, Keep)

\* an entity test that forgets the type
WellTypedEntityNameOnly(e) ==
  /\ Truthy(e)
  /\ FieldOf(e, "name").kind = "str"

\* line 329: e && typeof e.name === 'string' && typeof e.type === 'string'
WellTypedEntity(e) ==
  /\ Truthy(e)
  /\ FieldOf(e, "name").kind = "str"
  /\ FieldOf(e, "type").kind = "str"

\* a search that returns the last task of that name
FindByNameLast(xs, name) ==
  LET hits == FilterSeq(xs, LAMBDA a : a.name = name)
  IN  IF hits = <<>> THEN Null ELSE hits[Len(hits)]

\* successfulAgents.find(a => a.name === name), undefined (Null) when none
FindByName(xs, name) ==
  LET hits == FilterSeq(xs, LAMBDA a : a.name = name)
  IN  IF hits = <<>> THEN Null ELSE Head(hits)

\* a?.outputJson
OutputJsonOf(a) == IF a = Null THEN Null ELSE a.outputJson

\* lines 316-334: the value passed to setAnalysisResult, or Null when
\* setAnalysisResult is not called
NewAnalysis(finalAgentsState) ==
  LET successfulAgents == FilterSeq(finalAgentsState, LAMBDA a : a.status = Success)
      sentimentAgent == FindByName(successfulAgents, "Sentiment Analyzer")
      entityAgent == FindByName(successfulAgents, "Entity Extractor")
      sj == FieldOf(OutputJsonOf(sentimentAgent), "sentiment")
      ej == OutputJsonOf(entityAgent)
      sentiment == IF Truthy(sj) THEN [kind |-> "tally", t |-> SentimentTally(sj)] ELSE Null
      entities == IF ej.kind = "arr"
                  THEN [kind |-> "list", items |-> FilterSeq(ej.items, WellTypedEntity)]
                  ELSE Null
  IN  IF successfulAgents = <<>> THEN Null
      ELSE IF sentiment # Null \/ (entities # Null /\ entities.items # <<>>)
      THEN [kind |-> "analysis", sentiment |-> sentiment, entities |-> entities]
      ELSE Null

\* ----- state ------------------------------------------------------------
VARIABLES
  agents,             \* useLocalStorage('agents', []): the task list
  documentFile,       \* useState<DocumentFile>: its type, content and pdfDoc
  isProcessing,       \* useState(false)
  analysisResult,     \* useState<AnalysisResult | null>(null)
  followUpQuestions,  \* useState<string | null>(null)
  now,                \* the last reading of Date.now()
  runs,               \* the invocations of runWorkflow: locals and position
  lastOp,             \* the handler invoked last: "runWorkflow", "add" or "other"
  used,               \* loads, clears, edits and deletions made so far (for MaxUserOps)
  isPdfLibReady,      \* useState(false), line 45
  isLoadingFile,      \* useState(false), line 55
  isOcrProcessing,    \* useState(false), line 54
  selectedPages,      \* useState<Set<number>>(new Set()), line 60
  currentPage,        \* useState(1), line 61
  pdfZoom,            \* useState(1.0), line 62, in hundredths
  currentPageDataUrl, \* useState<string | null>(null), line 63
  isPageRendering,    \* useState(false), line 64
  renders,            \* the invocations of renderPage: locals and position
  loads,              \* the files being read by handleFileChange: position
  ocrs                \* the invocations of handleOcr: locals and position

\* the state of the PDF viewer, of the file reads and of the OCR passes
viewerVars == <<isPdfLibReady, isLoadingFile, isOcrProcessing, selectedPages,
                currentPage, loads, ocrs, pdfZoom, currentPageDataUrl,
                isPageRendering, renders>>

\* what the page render effect and the renders it begins write
renderVars == <<currentPageDataUrl, isPageRendering, renders>>

vars == <<agents, documentFile, isProcessing, analysisResult,
          followUpQuestions, now, runs, lastOp, used, isPdfLibReady,
          isLoadingFile, isOcrProcessing, selectedPages, currentPage, loads, ocrs,
          pdfZoom, currentPageDataUrl, isPageRendering, renders>>

RunIds == 1..MaxRuns

\* a runWorkflow invocation that has not happened yet
NoRun ==
  [pc |-> "idle", agentsToRun |-> <<>>, finalAgentsState |-> <<>>, i |-> 0,
   agentOutputsForFollowup |-> <<>>, content |-> "", called |-> <<>>,
   failedAt |-> 0, passed |-> <<>>]

\* a runWorkflow invocation that has returned: its locals are gone
DoneRun == [NoRun EXCEPT !.pc = "done"]

Started == {r \in RunIds : runs[r].pc # "idle"}
InFlight == {r \in RunIds : runs[r].pc \notin {"idle", "done"}}

\* JavaScript runs a handler to its next await before anything else runs:
\* no invocation of runWorkflow is between two awaits
Quiet == \A r \in RunIds : runs[r].pc \notin {"loop", "aggregate"}

NoDocument == [type |-> EMPTY, content |-> "", pdfDoc |-> Null]

LoadIds == 1..MaxLoads
OcrIds == 1..MaxOcrs

\* a file read that has not begun
NoLoad == [pc |-> "idle", isPdf |-> FALSE]

\* a handleOcr invocation that has not happened yet
NoOcr ==
  [pc |-> "idle", pdfDoc |-> Null, sortedPages |-> <<>>, k |-> 0, pageTexts |-> <<>>]

\* a handleOcr invocation that has returned: its locals are gone
DoneOcr == [NoOcr EXCEPT !.pc = "done"]

RenderIds == 1..MaxRenders

\* a renderPage invocation that has not happened yet; isCancelled is the
\* variable of the effect run that made the invocation (line 90)
NoRender ==
  [pc |-> "idle", pdfDoc |-> Null, page |-> 0, zoom |-> 0, isCancelled |-> FALSE]

\* lines 45, 54, 55, 60-64: the viewer after construction; no file is
\* being read, no OCR pass is under way and no page is being rendered (the
\* effect of lines 88-121 has run once, on the empty document: line 119)
InitViewer ==
  /\ isPdfLibReady = FALSE
  /\ isLoadingFile = FALSE
  /\ isOcrProcessing = FALSE
  /\ selectedPages = {}
  /\ currentPage = 1
  /\ loads = [l \in LoadIds |-> NoLoad]
  /\ ocrs = [o \in OcrIds |-> NoOcr]
  /\ pdfZoom = 100
  /\ currentPageDataUrl = Null
  /\ isPageRendering = FALSE
  /\ renders = [r \in RenderIds |-> NoRender]

Init ==
  /\ agents = <<>>
  /\ documentFile = NoDocument
  /\ isProcessing = FALSE
  /\ analysisResult = Null
  /\ followUpQuestions = Null
  /\ now = 0
  /\ runs = [r \in RunIds |-> NoRun]
  /\ lastOp = "other"
  /\ used = 0
  /\ InitViewer

\* ----- helpers of the handlers ------------------------------------------
\* prev.map(a => a.id === id ? { ...a, ...update } : a)
MapById(list, id, Update(_)) ==
  [k \in 1..Len(list) |-> IF list[k].id = id THEN Update(list[k]) ELSE list[k]]

\* a reset that only resets the status
ResetAgentStatusOnly(a) == [a EXCEPT !.status = Pending]

\* line 278: { ...a, status: Pending, output: null, error: null, outputJson: null }
ResetAgent(a) ==
  [a EXCEPT !.status = Pending, !.output = Null, !.error = Null, !.outputJson = Null]

\* line 287: { ...a, status: AgentStatus.Running }
RunningUpdate(a) == [a EXCEPT !.status = Running]

\* a success update that reports a failed extraction as the task's failure
SuccessfulUpdateStrict(a, t) ==
  IF ExtractJson(t) = Null
  THEN [a EXCEPT !.status = Error, !.output = Text(t), !.error = Text(<<"no JSON">>)]
  ELSE [a EXCEPT !.status = Success, !.output = Text(t),
                 !.outputJson = ExtractJson(t), !.error = Null]

\* line 303: { status: Success, output, outputJson, error: null }
SuccessfulUpdate(a, t) ==
  [a EXCEPT !.status = Success, !.output = Text(t),
            !.outputJson = ExtractJson(t), !.error = Null]

\* lines 308-309 with the Error thrown by runAgent (part_001 line 36)
ErrorUpdate(a, name) ==
  [a EXCEPT !.status = Error, !.error = Text(<<"Agent", name, "failed to execute.">>)]

\* the loop counter's step, i++ of line 284
NextIndex(i) == i + 1

\* an early return that forgets the empty task list
RunGuardContentOnly(content, list) == content # ""

\* line 273: the early return of runWorkflow
RunGuard(content, list) == content # "" /\ list # <<>>

\* ----- the task definition store ----------------------------------------
\* lines 259-268; Date.now() (line 262) returns a reading that is not
\* before the last one: `elapsed` is the time that has passed since then,
\* which is none only when the handler invoked last was this one too
HandleAgentTemplateAdd(template, elapsed) ==
  /\ Quiet
  /\ Len(agents) < MaxAgents
  /\ elapsed = 0 => lastOp = "add"
  /\ now + elapsed <= MaxClock
  /\ now' = now + elapsed
  /\ agents' = Append(agents,
       [id |-> now', name |-> template.name, prompt |-> template.prompt,
        model |-> MODEL_OPTIONS[1], status |-> Pending,
        output |-> Null, error |-> Null, outputJson |-> Null])
  /\ lastOp' = "add"
  /\ UNCHANGED <<documentFile, isProcessing, analysisResult,
                 followUpQuestions, runs, used>>
  /\ UNCHANGED viewerVars

\* line 270, from the delete button of a listed agent (line 561)
DeleteAgent(id) ==
  /\ Quiet
  /\ \E k \in 1..Len(agents) : agents[k].id = id
  /\ agents' = SelectSeq(agents, LAMBDA a : a.id # id)
  /\ lastOp' = "other"
  /\ used < MaxUserOps
  /\ used' = used + 1
  /\ UNCHANGED <<documentFile, isProcessing, analysisResult,
                 followUpQuestions, now, runs>>
  /\ UNCHANGED viewerVars

\* lines 255-257, from the model select (line 563) of a listed agent
UpdateAgentModel(id, value) ==
  /\ Quiet
  /\ \E k \in 1..Len(agents) : agents[k].id = id /\ agents[k].model # value
  /\ agents' = MapById(agents, id, LAMBDA a : [a EXCEPT !.model = value])
  /\ lastOp' = "other"
  /\ used < MaxUserOps
  /\ used' = used + 1
  /\ UNCHANGED <<documentFile, isProcessing, analysisResult,
                 followUpQuestions, now, runs>>
  /\ UNCHANGED viewerVars

\* lines 255-257, from the prompt textarea (line 566) of a listed agent
UpdateAgentPrompt(id, value) ==
  /\ Quiet
  /\ \E k \in 1..Len(agents) : agents[k].id = id /\ agents[k].prompt # value
  /\ agents' = MapById(agents, id, LAMBDA a : [a EXCEPT !.prompt = value])
  /\ lastOp' = "other"
  /\ used < MaxUserOps
  /\ used' = used + 1
  /\ UNCHANGED <<documentFile, isProcessing, analysisResult,
                 followUpQuestions, now, runs>>
  /\ UNCHANGED viewerVars

\* ----- the document -----------------------------------------------------
\* lines 128, 130, 131 of resetDocumentState: the OCR flag and the viewer
ResetViewer ==
  /\ isOcrProcessing' = FALSE
  /\ selectedPages' = {}
  /\ currentPage' = 1
  /\ pdfZoom' = 100

\* canvas.toDataURL('image/png') (line 105) of the canvas the page was
\* rendered on: the image of that page of that PDF at that scale
PageImage(pdfDoc, page, zoom) ==
  [kind |-> "image", pdfDoc |-> pdfDoc, page |-> page, zoom |-> zoom]

\* lines 88-121, up to the first await of renderPage.  documentFile (a new
\* object at every setDocumentFile), currentPage or pdfZoom has changed, so
\* after the commit the cleanup of the effect run before sets its
\* isCancelled (line 116) and the effect runs on the new values: renderPage
\* begins, or currentPageDataUrl is set to null (line 119).
PageRenderEffect ==
  LET cleaned == [r \in RenderIds |->
                    IF renders[r].pc \in {"getPage", "render"}
                    THEN [renders[r] EXCEPT !.isCancelled = TRUE]
                    ELSE renders[r]]
      n == Cardinality({r \in RenderIds : renders[r].pc # "idle"}) + 1
  IN  IF documentFile'.type = PDF /\ documentFile'.pdfDoc # Null
      THEN /\ n \in RenderIds
           /\ renders' = [cleaned EXCEPT ![n] =
                [pc |-> "getPage", pdfDoc |-> documentFile'.pdfDoc,
                 page |-> currentPage', zoom |-> pdfZoom',
                 isCancelled |-> FALSE]]
           /\ isPageRendering' = TRUE
           /\ UNCHANGED currentPageDataUrl
      ELSE /\ renders' = cleaned
           /\ currentPageDataUrl' = Null
           /\ UNCHANGED isPageRendering

\* lines 194-204; resetDocumentState (lines 124-134) is part of it
HandlePasteLoad(pastedContent) ==
  /\ Quiet
  /\ Trim(pastedContent) # ""
  /\ documentFile' = [type |-> PASTE, content |-> pastedContent, pdfDoc |-> Null]
  /\ analysisResult' = Null
  /\ isProcessing' = FALSE
  /\ followUpQuestions' = Null
  /\ lastOp' = "other"
  /\ used < MaxUserOps
  /\ used' = used + 1
  /\ ResetViewer
  /\ UNCHANGED <<agents, now, runs, isPdfLibReady, isLoadingFile, loads, ocrs>>
  /\ PageRenderEffect

\* lines 136-139, from the clear-and-reset button (lines 432-434)
ResetAppState ==
  /\ Quiet
  /\ documentFile.type # EMPTY
  /\ documentFile' = NoDocument
  /\ analysisResult' = Null
  /\ isProcessing' = FALSE
  /\ followUpQuestions' = Null
  /\ agents' = <<>>
  /\ lastOp' = "other"
  /\ used < MaxUserOps
  /\ used' = used + 1
  /\ ResetViewer
  /\ UNCHANGED <<now, runs, isPdfLibReady, isLoadingFile, loads, ocrs>>
  /\ PageRenderEffect

\* ----- the document: files, the PDF viewer and OCR ----------------------
\* the pdf.js library has arrived (lines 76-86)
PdfLibReady ==
  /\ ~isPdfLibReady
  /\ isPdfLibReady' = TRUE
  /\ UNCHANGED <<agents, documentFile, isProcessing, analysisResult,
                 followUpQuestions, now, runs, lastOp, used, isLoadingFile,
                 isOcrProcessing, selectedPages, currentPage, loads, ocrs>>
  /\ UNCHANGED <<pdfZoom, renderVars>>

\* the object pdfjs.getDocument resolves with (line 162): one for every call
PdfHandle(l, numPages) == [kind |-> "pdf", load |-> l, numPages |-> numPages]

\* what file.text() may resolve with (line 183)
FileContents == {"", "f1"}

\* lines 142-183 up to the first await: a file was chosen, a PDF (file.type
\* is 'application/pdf') or a text.  resetDocumentState is part of it.
HandleFileChange(isPdf) ==
  /\ Quiet
  /\ documentFile' = NoDocument
  /\ analysisResult' = Null
  /\ isProcessing' = FALSE
  /\ followUpQuestions' = Null
  /\ ResetViewer
  /\ lastOp' = "other"
  /\ IF isPdf /\ ~isPdfLibReady
     THEN /\ isLoadingFile' = FALSE                 \* lines 150-155
          /\ UNCHANGED loads
     ELSE LET l == Cardinality({n \in LoadIds : loads[n].pc # "idle"}) + 1
          IN  /\ l \in LoadIds
              /\ isLoadingFile' = TRUE
              /\ loads' = [loads EXCEPT ![l] =
                   [pc |-> IF isPdf THEN "reading" ELSE "text", isPdf |-> isPdf]]
  /\ UNCHANGED <<agents, now, runs, used, isPdfLibReady, ocrs>>
  /\ PageRenderEffect

\* lines 175-179: fileReader.onerror
FileReaderError(l) ==
  /\ Quiet
  /\ loads[l].pc = "reading"
  /\ loads' = [loads EXCEPT ![l].pc = "unread"]
  /\ isLoadingFile' = FALSE
  /\ UNCHANGED <<agents, documentFile, isProcessing, analysisResult,
                 followUpQuestions, now, runs, lastOp, used, isPdfLibReady,
                 isOcrProcessing, selectedPages, currentPage, ocrs>>
  /\ UNCHANGED <<pdfZoom, renderVars>>

\* lines 159-162: fileReader.onload calls pdfjs.getDocument and awaits it
FileReaderLoad(l) ==
  /\ Quiet
  /\ loads[l].pc = "reading"
  /\ loads' = [loads EXCEPT ![l].pc = "parsing"]
  /\ UNCHANGED <<agents, documentFile, isProcessing, analysisResult,
                 followUpQuestions, now, runs, lastOp, used, isPdfLibReady,
                 isLoadingFile, isOcrProcessing, selectedPages, currentPage, ocrs>>
  /\ UNCHANGED <<pdfZoom, renderVars>>

\* lines 162-167 and 171-173: getDocument resolved with a PDF of numPages pages
PdfResolve(l, numPages) ==
  /\ Quiet
  /\ loads[l].pc = "parsing"
  /\ loads' = [loads EXCEPT ![l].pc = "loaded"]
  /\ documentFile' = [type |-> PDF, content |-> "", pdfDoc |-> PdfHandle(l, numPages)]
  /\ currentPage' = 1
  /\ selectedPages' = 1..numPages
  /\ isLoadingFile' = FALSE
  /\ UNCHANGED <<agents, isProcessing, analysisResult, followUpQuestions, now,
                 runs, lastOp, used, isPdfLibReady, isOcrProcessing, ocrs>>
  /\ UNCHANGED pdfZoom
  /\ PageRenderEffect

\* a failure of getDocument that leaves the loading indicator on
PdfRejectKeepsLoading(l) ==
  /\ Quiet
  /\ loads[l].pc = "parsing"
  /\ loads' = [loads EXCEPT ![l].pc = "failed"]
  /\ UNCHANGED <<agents, documentFile, isProcessing, analysisResult,
                 followUpQuestions, now, runs, lastOp, used, isPdfLibReady,
                 isLoadingFile, isOcrProcessing, selectedPages, currentPage, ocrs>>
  /\ UNCHANGED <<pdfZoom, renderVars>>

\* lines 168-173: getDocument threw (a corrupt or unsupported file); the
\* error is reported by alert, then the finally clause runs
PdfReject(l) ==
  /\ Quiet
  /\ loads[l].pc = "parsing"
  /\ loads' = [loads EXCEPT ![l].pc = "failed"]
  /\ isLoadingFile' = FALSE
  /\ UNCHANGED <<agents, documentFile, isProcessing, analysisResult,
                 followUpQuestions, now, runs, lastOp, used, isPdfLibReady,
                 isOcrProcessing, selectedPages, currentPage, ocrs>>
  /\ UNCHANGED <<pdfZoom, renderVars>>

\* lines 183-184 and 188-190: file.text() resolved
TextResolve(l, content) ==
  /\ Quiet
  /\ loads[l].pc = "text"
  /\ loads' = [loads EXCEPT ![l].pc = "loaded"]
  /\ documentFile' = [type |-> TXT, content |-> content, pdfDoc |-> Null]
  /\ isLoadingFile' = FALSE
  /\ UNCHANGED <<agents, isProcessing, analysisResult, followUpQuestions, now,
                 runs, lastOp, used, isPdfLibReady, isOcrProcessing,
                 selectedPages, currentPage, ocrs>>
  /\ UNCHANGED pdfZoom
  /\ PageRenderEffect

\* lines 185-190: file.text() threw
TextReject(l) ==
  /\ Quiet
  /\ loads[l].pc = "text"
  /\ loads' = [loads EXCEPT ![l].pc = "failed"]
  /\ isLoadingFile' = FALSE
  /\ UNCHANGED <<agents, documentFile, isProcessing, analysisResult,
                 followUpQuestions, now, runs, lastOp, used, isPdfLibReady,
                 isOcrProcessing, selectedPages, currentPage, ocrs>>
  /\ UNCHANGED <<pdfZoom, renderVars>>

\* line 481: the PDF viewer and its controls are rendered
ViewerShown == documentFile.type = PDF /\ documentFile.pdfDoc # Null

\* lines 206-214, from the checkbox of the page shown (line 504)
HandlePageSelection ==
  /\ Quiet
  /\ ViewerShown
  /\ selectedPages' = IF currentPage \in selectedPages
                      THEN selectedPages \ {currentPage}
                      ELSE selectedPages \cup {currentPage}
  /\ lastOp' = "other"
  /\ UNCHANGED <<agents, documentFile, isProcessing, analysisResult,
                 followUpQuestions, now, runs, used, isPdfLibReady,
                 isLoadingFile, isOcrProcessing, currentPage, loads, ocrs>>
  /\ UNCHANGED <<pdfZoom, renderVars>>

\* lines 216-221
HandleSelectAllPages ==
  /\ Quiet
  /\ ViewerShown
  /\ selectedPages' = 1..documentFile.pdfDoc.numPages
  /\ lastOp' = "other"
  /\ UNCHANGED <<agents, documentFile, isProcessing, analysisResult,
                 followUpQuestions, now, runs, used, isPdfLibReady,
                 isLoadingFile, isOcrProcessing, currentPage, loads, ocrs>>
  /\ UNCHANGED <<pdfZoom, renderVars>>

\* line 223
HandleDeselectAllPages ==
  /\ Quiet
  /\ ViewerShown
  /\ selectedPages' = {}
  /\ lastOp' = "other"
  /\ UNCHANGED <<agents, documentFile, isProcessing, analysisResult,
                 followUpQuestions, now, runs, used, isPdfLibReady,
                 isLoadingFile, isOcrProcessing, currentPage, loads, ocrs>>
  /\ UNCHANGED <<pdfZoom, renderVars>>

\* lines 508-509: the buttons to the page before and to the page after
TurnPage(d) ==
  /\ Quiet
  /\ ViewerShown
  /\ currentPage + d \in 1..documentFile.pdfDoc.numPages
  /\ currentPage' = currentPage + d
  /\ lastOp' = "other"
  /\ UNCHANGED <<agents, documentFile, isProcessing, analysisResult,
                 followUpQuestions, now, runs, used, isPdfLibReady,
                 isLoadingFile, isOcrProcessing, selectedPages, loads, ocrs>>
  /\ UNCHANGED pdfZoom
  /\ PageRenderEffect
\* lines 224-225, from the buttons of lines 487 and 489: d is 25 or -25
\* hundredths; at a limit (3.0, 0.5) the zoom keeps its value, nothing is
\* rendered anew and the effect does not run
HandleZoom(d) ==
  /\ Quiet
  /\ ViewerShown
  /\ pdfZoom' = IF d > 0
                THEN (IF pdfZoom + d < 300 THEN pdfZoom + d ELSE 300)
                ELSE (IF pdfZoom + d > 50 THEN pdfZoom + d ELSE 50)
  /\ lastOp' = "other"
  /\ UNCHANGED <<agents, documentFile, isProcessing, analysisResult,
                 followUpQuestions, now, runs, used, isPdfLibReady,
                 isLoadingFile, isOcrProcessing, selectedPages, currentPage,
                 loads, ocrs>>
  /\ IF pdfZoom' = pdfZoom THEN UNCHANGED renderVars ELSE PageRenderEffect

\* a renderPage invocation that has returned: its locals are gone, the
\* isCancelled of its effect run remains
DoneRender(r) == [NoRender EXCEPT !.pc = "done", !.isCancelled = renders[r].isCancelled]

\* lines 95-96: getPage resolved; on line 96 a cancelled invocation returns
\* (and line 111 then sets nothing), another goes on to await the render of
\* the page on a canvas (lines 97-103)
GetPageResolve(r) ==
  /\ Quiet
  /\ renders[r].pc = "getPage"
  /\ renders' = [renders EXCEPT ![r] =
       IF renders[r].isCancelled THEN DoneRender(r) ELSE [@ EXCEPT !.pc = "render"]]
  /\ UNCHANGED <<agents, documentFile, isProcessing, analysisResult,
                 followUpQuestions, now, runs, lastOp, used, isPdfLibReady,
                 isLoadingFile, isOcrProcessing, selectedPages, currentPage,
                 loads, ocrs, pdfZoom, currentPageDataUrl, isPageRendering>>

\* a render that resolves and sets the image and the indicator whatever its
\* effect run's isCancelled says
RenderResolveUnguarded(r) ==
  /\ Quiet
  /\ renders[r].pc = "render"
  /\ renders' = [renders EXCEPT ![r] = DoneRender(r)]
  /\ currentPageDataUrl' =
       PageImage(renders[r].pdfDoc, renders[r].page, renders[r].zoom)
  /\ isPageRendering' = FALSE
  /\ UNCHANGED <<agents, documentFile, isProcessing, analysisResult,
                 followUpQuestions, now, runs, lastOp, used, isPdfLibReady,
                 isLoadingFile, isOcrProcessing, selectedPages, currentPage,
                 loads, ocrs, pdfZoom>>

\* lines 103-105 and 110-112: the render of the page resolved
RenderResolve(r) ==
  /\ Quiet
  /\ renders[r].pc = "render"
  /\ renders' = [renders EXCEPT ![r] = DoneRender(r)]
  /\ IF renders[r].isCancelled
     THEN UNCHANGED <<currentPageDataUrl, isPageRendering>>
     ELSE /\ currentPageDataUrl' =
               PageImage(renders[r].pdfDoc, renders[r].page, renders[r].zoom)
          /\ isPageRendering' = FALSE
  /\ UNCHANGED <<agents, documentFile, isProcessing, analysisResult,
                 followUpQuestions, now, runs, lastOp, used, isPdfLibReady,
                 isLoadingFile, isOcrProcessing, selectedPages, currentPage,
                 loads, ocrs, pdfZoom>>

\* lines 106-112: getPage or the render threw
RenderReject(r) ==
  /\ Quiet
  /\ renders[r].pc \in {"getPage", "render"}
  /\ renders' = [renders EXCEPT ![r] = DoneRender(r)]
  /\ IF renders[r].isCancelled
     THEN UNCHANGED <<currentPageDataUrl, isPageRendering>>
     ELSE /\ currentPageDataUrl' = Null
          /\ isPageRendering' = FALSE
  /\ UNCHANGED <<agents, documentFile, isProcessing, analysisResult,
                 followUpQuestions, now, runs, lastOp, used, isPdfLibReady,
                 isLoadingFile, isOcrProcessing, selectedPages, currentPage,
                 loads, ocrs, pdfZoom>>

\* Array.from(selectedPages).sort((a, b) => a - b), line 231
RECURSIVE SortedPages(_)
SortedPages(S) ==
  IF S = {} THEN <<>>
  ELSE LET least == CHOOSE p \in S : \A q \in S : p <= q
       IN  <<least>> \o SortedPages(S \ {least})

\* what performOcr may resolve with (part_001 lines 8-22)
OcrTexts == {"o1"}

\* lines 243 and 245: the text pushed for a page
PageText(pageNum, ocrText) ==
  "--- Page " \o ToString(pageNum) \o " ---\n" \o ocrText

\* pageTexts.join('\n\n'), line 250
RECURSIVE JoinPageTexts(_)
JoinPageTexts(pageTexts) ==
  IF pageTexts = <<>> THEN ""
  ELSE IF Len(pageTexts) = 1 THEN pageTexts[1]
  ELSE pageTexts[1] \o "\n\n" \o JoinPageTexts(Tail(pageTexts))

\* lines 227-231; the button (line 495) is disabled while isOcrProcessing
\* and when no page is selected
HandleOcr ==
  /\ Quiet
  /\ ViewerShown
  /\ ~isOcrProcessing
  /\ selectedPages # {}
  /\ LET o == Cardinality({n \in OcrIds : ocrs[n].pc # "idle"}) + 1
     IN  /\ o \in OcrIds
         /\ ocrs' = [ocrs EXCEPT ![o] =
              [pc |-> "page", pdfDoc |-> documentFile.pdfDoc,
               sortedPages |-> SortedPages(selectedPages), k |-> 1,
               pageTexts |-> <<>>]]
  /\ isOcrProcessing' = TRUE
  /\ lastOp' = "other"
  /\ UNCHANGED <<agents, documentFile, isProcessing, analysisResult,
                 followUpQuestions, now, runs, used, isPdfLibReady,
                 isLoadingFile, selectedPages, currentPage, loads>>
  /\ UNCHANGED <<pdfZoom, renderVars>>

\* lines 250-251: the end of handleOcr, with the texts it has collected; the
\* document is a new object, so the page render effect follows
OcrFinish(o, pageTexts) ==
  /\ documentFile' = [documentFile EXCEPT !.content = JoinPageTexts(pageTexts),
                                          !.type = TXT, !.pdfDoc = Null]
  /\ isOcrProcessing' = FALSE
  /\ ocrs' = [ocrs EXCEPT ![o] = DoneOcr]
  /\ UNCHANGED <<currentPage, pdfZoom>>
  /\ PageRenderEffect

\* lines 233-243: the page was read, rendered and recognised (the three
\* awaits of a page touch no state between them); after the last page the
\* loop ends and lines 250-251 follow
OcrPageResolve(o, ocrText) ==
  /\ Quiet
  /\ ocrs[o].pc = "page"
  /\ LET pageTexts == Append(ocrs[o].pageTexts,
                             PageText(ocrs[o].sortedPages[ocrs[o].k], ocrText))
     IN  IF ocrs[o].k < Len(ocrs[o].sortedPages)
         THEN /\ ocrs' = [ocrs EXCEPT ![o].k = @ + 1, ![o].pageTexts = pageTexts]
              /\ UNCHANGED <<documentFile, isOcrProcessing, currentPage,
                             pdfZoom, renderVars>>
         ELSE OcrFinish(o, pageTexts)
  /\ UNCHANGED <<agents, isProcessing, analysisResult, followUpQuestions, now,
                 runs, lastOp, used, isPdfLibReady, isLoadingFile,
                 selectedPages, loads>>

\* lines 244-248: one of the awaits of the page threw; the loop is left
OcrPageReject(o) ==
  /\ Quiet
  /\ ocrs[o].pc = "page"
  /\ OcrFinish(o, Append(ocrs[o].pageTexts,
                         PageText(ocrs[o].sortedPages[ocrs[o].k], "[OCR Failed]")))
  /\ UNCHANGED <<agents, isProcessing, analysisResult, followUpQuestions, now,
                 runs, lastOp, used, isPdfLibReady, isLoadingFile,
                 selectedPages, loads>>

\* ----- the workflow runner: runWorkflow (lines 272-346) -----------------
\* The run button (line 551) is disabled while isProcessing.  Lines 273-282:
\* the early return, or the reset of the results and of every task.
RunWorkflow ==
  /\ Quiet
  /\ ~isProcessing
  /\ lastOp' = "runWorkflow"
  /\ IF RunGuard(documentFile.content, agents)
     THEN LET r == Cardinality(Started) + 1
              agentsToRun == [k \in 1..Len(agents) |-> ResetAgent(agents[k])]
          IN  /\ r \in RunIds
              /\ isProcessing' = TRUE
              /\ analysisResult' = Null
              /\ followUpQuestions' = Null
              /\ agents' = agentsToRun
              /\ runs' = [runs EXCEPT ![r] =
                   [pc |-> "loop", agentsToRun |-> agentsToRun,
                    finalAgentsState |-> agentsToRun, i |-> 1,
                    agentOutputsForFollowup |-> <<>>,
                    content |-> documentFile.content, called |-> <<>>,
                    failedAt |-> 0, passed |-> <<>>]]
              /\ UNCHANGED <<documentFile, now, used>>
     ELSE UNCHANGED <<agents, documentFile, isProcessing, analysisResult,
                      followUpQuestions, now, runs, used>>
  /\ UNCHANGED viewerVars

\* a provider call that reads the document of the latest render
ContentOfRunLive(r) == documentFile.content

\* documentFile.content inside runWorkflow (lines 290, 338): the value the
\* callback closed over when the invocation began
ContentOfRun(r) == runs[r].content

\* a provider call of run r: the document content it is given, and the
\* content of the loaded document at that time
ProviderCall(r) == [content |-> ContentOfRun(r), live |-> documentFile.content]

\* a loop that walks the displayed task list instead of the snapshot
LoopStepLive(r) ==
  /\ runs[r].pc = "loop"
  /\ IF runs[r].i <= Len(runs[r].agentsToRun)
     THEN LET agent == IF runs[r].i <= Len(agents) THEN agents[runs[r].i]
                       ELSE runs[r].agentsToRun[runs[r].i]
          IN  /\ agents' = MapById(agents, agent.id, RunningUpdate)
              /\ runs' = [runs EXCEPT ![r].pc = "awaitAgent",
                                      ![r].called = Append(@, runs[r].i),
                                      ![r].passed = Append(@, ProviderCall(r))]
     ELSE /\ runs' = [runs EXCEPT ![r].pc = "aggregate"]
          /\ UNCHANGED agents
  /\ UNCHANGED <<documentFile, isProcessing, analysisResult,
                 followUpQuestions, now, lastOp, used>>
  /\ UNCHANGED viewerVars

\* lines 284-290: the loop head; the task becomes Running and runAgent is
\* called with it and with the document content of the invocation
LoopStep(r) ==
  /\ runs[r].pc = "loop"
  /\ IF runs[r].i <= Len(runs[r].agentsToRun)
     THEN LET agent == runs[r].agentsToRun[runs[r].i]
          IN  /\ agents' = MapById(agents, agent.id, RunningUpdate)
              /\ runs' = [runs EXCEPT ![r].pc = "awaitAgent",
                                      ![r].called = Append(@, runs[r].i),
                                      ![r].passed = Append(@, ProviderCall(r))]
     ELSE /\ runs' = [runs EXCEPT ![r].pc = "aggregate"]
          /\ UNCHANGED agents
  /\ UNCHANGED <<documentFile, isProcessing, analysisResult,
                 followUpQuestions, now, lastOp, used>>
  /\ UNCHANGED viewerVars

\* a success write that puts the run's own copy of the task into the list
AgentResolveFromSnapshot(r, t) ==
  /\ Quiet
  /\ runs[r].pc = "awaitAgent"
  /\ LET agent == runs[r].agentsToRun[runs[r].i]
     IN  /\ agents' = MapById(agents, agent.id, LAMBDA a : SuccessfulUpdate(agent, t))
         /\ runs' = [runs EXCEPT
              ![r].pc = "loop",
              ![r].i = NextIndex(@),
              ![r].agentOutputsForFollowup =
                 Append(@, [name |-> agent.name, output |-> Text(t)]),
              ![r].finalAgentsState =
                 MapById(@, agent.id, LAMBDA a : SuccessfulUpdate(a, t))]
  /\ UNCHANGED <<documentFile, isProcessing, analysisResult,
                 followUpQuestions, now, lastOp, used>>
  /\ UNCHANGED viewerVars

\* lines 290-305: runAgent resolved with text t
AgentResolve(r, t) ==
  /\ Quiet
  /\ runs[r].pc = "awaitAgent"
  /\ LET agent == runs[r].agentsToRun[runs[r].i]
     IN  /\ agents' = MapById(agents, agent.id, LAMBDA a : SuccessfulUpdate(a, t))
         /\ runs' = [runs EXCEPT
              ![r].pc = "loop",
              ![r].i = NextIndex(@),
              ![r].agentOutputsForFollowup =
                 Append(@, [name |-> agent.name, output |-> Text(t)]),
              ![r].finalAgentsState =
                 MapById(@, agent.id, LAMBDA a : SuccessfulUpdate(a, t))]
  /\ UNCHANGED <<documentFile, isProcessing, analysisResult,
                 followUpQuestions, now, lastOp, used>>
  /\ UNCHANGED viewerVars

\* lines 307-312: runAgent threw; the loop is left
AgentReject(r) ==
  /\ Quiet
  /\ runs[r].pc = "awaitAgent"
  /\ LET agent == runs[r].agentsToRun[runs[r].i]
     IN  /\ agents' = MapById(agents, agent.id, LAMBDA a : ErrorUpdate(a, agent.name))
         /\ runs' = [runs EXCEPT
              ![r].pc = "aggregate",
              ![r].failedAt = runs[r].i,
              ![r].finalAgentsState =
                 MapById(@, agent.id, LAMBDA a : ErrorUpdate(a, agent.name))]
  /\ UNCHANGED <<documentFile, isProcessing, analysisResult,
                 followUpQuestions, now, lastOp, used>>
  /\ UNCHANGED viewerVars

\* lines 316-338 and 345: the aggregation, then either the follow-up call
\* or, with no output to ask about, the end of the run
AggregateStep(r) ==
  /\ runs[r].pc = "aggregate"
  /\ LET newAnalysis == NewAnalysis(runs[r].finalAgentsState)
     IN  analysisResult' = IF newAnalysis # Null THEN newAnalysis ELSE analysisResult
  /\ IF runs[r].agentOutputsForFollowup # <<>>
     THEN /\ runs' = [runs EXCEPT ![r].pc = "awaitFollowUp",
                                  ![r].passed = Append(@, ProviderCall(r))]
          /\ UNCHANGED isProcessing
     ELSE /\ runs' = [runs EXCEPT ![r] = DoneRun]
          /\ isProcessing' = FALSE
  /\ UNCHANGED <<agents, documentFile, followUpQuestions, now, lastOp, used>>
  /\ UNCHANGED viewerVars

\* lines 338-339 and 345: generateFollowUpQuestions resolved with text t
FollowUpResolve(r, t) ==
  /\ Quiet
  /\ runs[r].pc = "awaitFollowUp"
  /\ followUpQuestions' = Text(t)
  /\ isProcessing' = FALSE
  /\ runs' = [runs EXCEPT ![r] = DoneRun]
  /\ UNCHANGED <<agents, documentFile, analysisResult, now, lastOp, used>>
  /\ UNCHANGED viewerVars

\* a follow-up failure that leaves the function before line 345
FollowUpRejectSkipsFinish(r) ==
  /\ Quiet
  /\ runs[r].pc = "awaitFollowUp"
  /\ runs' = [runs EXCEPT ![r] = DoneRun]
  /\ UNCHANGED <<agents, documentFile, isProcessing, analysisResult,
                 followUpQuestions, now, lastOp, used>>
  /\ UNCHANGED viewerVars

\* lines 341-345: generateFollowUpQuestions threw; only logged
FollowUpReject(r) ==
  /\ Quiet
  /\ runs[r].pc = "awaitFollowUp"
  /\ isProcessing' = FALSE
  /\ runs' = [runs EXCEPT ![r] = DoneRun]
  /\ UNCHANGED <<agents, documentFile, analysisResult, followUpQuestions,
                 now, lastOp, used>>
  /\ UNCHANGED viewerVars

\* ----- the specification ------------------------------------------------
Next ==
  \/ \E template \in DEFAULT_AGENTS, elapsed \in 0..1 :
       HandleAgentTemplateAdd(template, elapsed)
  \/ \E id \in 1..MaxClock : DeleteAgent(id)
  \/ \E id \in 1..MaxClock, value \in {MODEL_OPTIONS[1], MODEL_OPTIONS[2]} :
       UpdateAgentModel(id, value)
  \/ \E id \in 1..MaxClock, value \in Prompts : UpdateAgentPrompt(id, value)
  \/ \E pastedContent \in PasteInputs : HandlePasteLoad(pastedContent)
  \/ ResetAppState
  \/ RunWorkflow
  \/ \E r \in RunIds : LoopStep(r)
  \/ \E r \in RunIds, t \in ProviderTexts : AgentResolve(r, t)
  \/ \E r \in RunIds : AgentReject(r)
  \/ \E r \in RunIds : AggregateStep(r)
  \/ \E r \in RunIds, t \in FollowUpTexts : FollowUpResolve(r, t)
  \/ \E r \in RunIds : FollowUpReject(r)

Spec == Init /\ [][Next]_vars

\* the steps of one invocation of runWorkflow
RunStep(r) ==
  \/ LoopStep(r)
  \/ \E t \in ProviderTexts : AgentResolve(r, t)
  \/ AgentReject(r)
  \/ AggregateStep(r)
  \/ \E t \in FollowUpTexts : FollowUpResolve(r, t)
  \/ FollowUpReject(r)

\* Synchronous code runs on, and every awaited provider call settles: it
\* resolves or it throws (runAgent and generateFollowUpQuestions rethrow).
FairSpec == Spec /\ \A r \in RunIds : WF_vars(RunStep(r))

\* ----- a session of document loading and OCR ------------------------------
\* files are chosen and read, contents pasted, the document cleared, pages
\* selected, turned and rendered and OCR passes made; no workflow is run
NextDocument ==
  \/ PdfLibReady
  \/ \E isPdf \in BOOLEAN : HandleFileChange(isPdf)
  \/ \E l \in LoadIds : FileReaderError(l)
  \/ \E l \in LoadIds : FileReaderLoad(l)
  \/ \E l \in LoadIds, numPages \in 1..MaxPages : PdfResolve(l, numPages)
  \/ \E l \in LoadIds : PdfReject(l)
  \/ \E l \in LoadIds, content \in FileContents : TextResolve(l, content)
  \/ \E l \in LoadIds : TextReject(l)
  \/ HandlePasteLoad("d1")
  \/ ResetAppState
  \/ HandlePageSelection
  \/ HandleSelectAllPages
  \/ HandleDeselectAllPages
  \/ \E d \in {-1, 1} : TurnPage(d)
  \/ HandleOcr
  \/ \E o \in OcrIds, ocrText \in OcrTexts : OcrPageResolve(o, ocrText)
  \/ \E o \in OcrIds : OcrPageReject(o)
  \/ \E r \in RenderIds : GetPageResolve(r)
  \/ \E r \in RenderIds : RenderResolve(r)
  \/ \E r \in RenderIds : RenderReject(r)

DocumentSpec == Init /\ [][NextDocument]_vars

\* ----- a session at the PDF viewer ----------------------------------------
\* PDFs are chosen and read, pages turned, the zoom changed and the page
\* shown rendered anew each time; contents are pasted over the PDF
NextViewer ==
  \/ PdfLibReady
  \/ HandleFileChange(TRUE)
  \/ \E l \in LoadIds : FileReaderLoad(l)
  \/ \E l \in LoadIds, numPages \in 1..MaxPages : PdfResolve(l, numPages)
  \/ HandlePasteLoad("d1")
  \/ \E d \in {-1, 1} : TurnPage(d)
  \/ \E d \in {-25, 25} : HandleZoom(d)
  \/ \E r \in RenderIds : GetPageResolve(r)
  \/ \E r \in RenderIds : RenderResolve(r)
  \/ \E r \in RenderIds : RenderReject(r)

ViewerSpec == Init /\ [][NextViewer]_vars

\* ----- a session that starts from a stored task list --------------------
\* useLocalStorage('agents', []) (line 51) starts from the list an earlier
\* session stored.  The names a stored task may carry: the two role names
\* of the aggregation and one that differs from a role name in case only.
RoleNames == {"Sentiment Analyzer", "Entity Extractor", "sentiment analyzer"}

\* a stored task, as handleAgentTemplateAdd builds it (lines 260-266)
StoredAgent(id, name) ==
  [id |-> id, name |-> name, prompt |-> "p0", model |-> MODEL_OPTIONS[1],
   status |-> Pending, output |-> Null, error |-> Null, outputJson |-> Null]

\* the stored lists: up to MaxAgents tasks, whose ids are all distinct or,
\* stored by a session in which Date.now() repeated (line 262), all the same
StoredLists ==
  UNION { { [k \in 1..n |-> StoredAgent(IF sameId THEN 1 ELSE k, names[k])] :
              names \in [1..n -> RoleNames], sameId \in BOOLEAN } :
          n \in 1..MaxAgents }

InitStored ==
  /\ agents \in StoredLists
  /\ documentFile = NoDocument
  /\ isProcessing = FALSE
  /\ analysisResult = Null
  /\ followUpQuestions = Null
  /\ now = 0
  /\ runs = [r \in RunIds |-> NoRun]
  /\ lastOp = "other"
  /\ used = 0
  /\ InitViewer

\* one document is pasted and the workflow is run once; the provider
\* answers with any of the wider texts
NextAnalysis ==
  \/ HandlePasteLoad("d1")
  \/ (Started = {} /\ RunWorkflow)
  \/ LoopStep(1)
  \/ \E t \in WideTexts : AgentResolve(1, t)
  \/ AgentReject(1)
  \/ AggregateStep(1)
  \/ \E t \in FollowUpTexts : FollowUpResolve(1, t)
  \/ FollowUpReject(1)

AnalysisSpec == InitStored /\ [][NextAnalysis]_vars

\* ----- a session whose provider always succeeds --------------------------
\* every handler of Next, with a provider none of whose calls throws: runAgent
\* and generateFollowUpQuestions (part_001) always resolve with a text
NextSucceeding ==
  \/ \E template \in DEFAULT_AGENTS, elapsed \in 0..1 :
       HandleAgentTemplateAdd(template, elapsed)
  \/ \E id \in 1..MaxClock : DeleteAgent(id)
  \/ \E id \in 1..MaxClock, value \in {MODEL_OPTIONS[1], MODEL_OPTIONS[2]} :
       UpdateAgentModel(id, value)
  \/ \E id \in 1..MaxClock, value \in Prompts : UpdateAgentPrompt(id, value)
  \/ \E pastedContent \in PasteInputs : HandlePasteLoad(pastedContent)
  \/ ResetAppState
  \/ RunWorkflow
  \/ \E r \in RunIds : LoopStep(r)
  \/ \E r \in RunIds, t \in ProviderTexts : AgentResolve(r, t)
  \/ \E r \in RunIds : AggregateStep(r)
  \/ \E r \in RunIds, t \in FollowUpTexts : FollowUpResolve(r, t)

SucceedingSpec == Init /\ [][NextSucceeding]_vars

\* ----- a session in which the follow-up call returns any text ------------
\* one stored task, one document, one run
InitFollowUp ==
  /\ agents = <<StoredAgent(1, "Sentiment Analyzer")>>
  /\ documentFile = NoDocument
  /\ isProcessing = FALSE
  /\ analysisResult = Null
  /\ followUpQuestions = Null
  /\ now = 0
  /\ runs = [r \in RunIds |-> NoRun]
  /\ lastOp = "other"
  /\ used = 0
  /\ InitViewer

NextFollowUp ==
  \/ HandlePasteLoad("d1")
  \/ (Started = {} /\ RunWorkflow)
  \/ LoopStep(1)
  \/ \E t \in ProviderTexts : AgentResolve(1, t)
  \/ AgentReject(1)
  \/ AggregateStep(1)
  \/ \E t \in WideFollowUpTexts : FollowUpResolve(1, t)
  \/ FollowUpReject(1)

FollowUpSpec == InitFollowUp /\ [][NextFollowUp]_vars

\* ----- properties of the runner -----------------------------------------
AllPendingAndNull(list) ==
  \A k \in 1..Len(list) :
    /\ list[k].status = Pending
    /\ list[k].output = Null
    /\ list[k].error = Null
    /\ list[k].outputJson = Null

\* the state published by line 279, before the first pass of the loop
JustReset(r) == runs[r].pc = "loop" /\ runs[r].called = <<>>

\* C1: when a run has passed its early return, the task list it publishes
\* first (line 279) is non-empty and has every task Pending with output,
\* error and outputJson null; the run has set no task Running and called the
\* provider for none before that state.
C1_ResetPublishedFirst ==
  \A r \in RunIds :
    JustReset(r) =>
      /\ agents # <<>>
      /\ agents = runs[r].agentsToRun
      /\ AllPendingAndNull(agents)

\* C1 witness: a second run has just reset the list the first run wrote to
C1_Witness ==
  /\ JustReset(2)
  /\ runs[1].pc = "done"
  /\ Len(agents) = 2

\* C7: a call of runWorkflow with an empty document content or an empty task
\* list changes no task, leaves isProcessing, analysisResult and
\* followUpQuestions as they are, and starts no run (so calls no provider).
C7_EmptyRunIsNoOp ==
  [][ (RunWorkflow /\ (documentFile.content = "" \/ agents = <<>>))
      => UNCHANGED <<agents, isProcessing, analysisResult,
                     followUpQuestions, runs, documentFile>> ]_vars

\* C7 witness: runWorkflow was the last handler called, after clear-and-reset
\* emptied the document and the task list while an earlier run is in flight
C7_Witness ==
  /\ lastOp = "runWorkflow"
  /\ agents = <<>>
  /\ documentFile.content = ""
  /\ InFlight # {}

\* C8: every run that has passed its early return (and so has set
\* isProcessing to true) comes to its end, where line 345 has set
\* isProcessing to false: whether its tasks succeeded, one failed, or the
\* follow-up call failed.
C8_RunFinishes ==
  \A r \in RunIds :
    (runs[r].pc \notin {"idle", "done"}) ~> (runs[r].pc = "done" /\ ~isProcessing)

\* C8 witness: a run whose task failed after another succeeded is awaiting
\* the follow-up call, with isProcessing still true
C8_Witness ==
  \E r \in RunIds :
    /\ runs[r].pc = "awaitFollowUp"
    /\ runs[r].failedAt = 2
    /\ isProcessing

Terminal == {Success, Error}

\* the positions of the list whose task is Running
RunningAt(list) == {k \in 1..Len(list) : list[k].status = Running}

\* the provider calls of run r were made for positions 1, 2, ... in order
CalledInOrder(r) ==
  \A n \in 1..Len(runs[r].called) : runs[r].called[n] = n

\* C2: within a run the tasks execute one after the other in list order: a
\* task of the list is Running only when the task before it has reached
\* Success or Error, the provider is called for position n only after the
\* calls for 1..n-1 have come back, and with one run in flight at most one
\* task is Running.
C2_SequentialOrder ==
  /\ \A k \in 2..Len(agents) :
       agents[k].status = Running => agents[k-1].status \in Terminal
  /\ \A r \in RunIds :
       /\ CalledInOrder(r)
       /\ \A n \in 1..(Len(runs[r].called) - 1) :
            runs[r].finalAgentsState[n].status \in Terminal
  /\ Cardinality(InFlight) = 1 => Cardinality(RunningAt(agents)) <= 1

\* C3: when the provider call of task K of a run has failed, K is Error in
\* that run's list, every later task of that list is still Pending, and the
\* run has called the provider for none of them.
C3_FailureStopsRun ==
  \A r \in RunIds :
    LET K == runs[r].failedAt
        list == runs[r].finalAgentsState
    IN  K > 0 =>
          /\ list[K].status = Error
          /\ \A j \in (K+1)..Len(list) :
               /\ list[j].status = Pending
               /\ \A n \in 1..Len(runs[r].called) : runs[r].called[n] # j

\* run r has been superseded: a later run has started
Superseded(r) == \E q \in Started : q > r

\* C4: no step of a superseded run (a completion of one of its provider
\* calls, or the synchronous code after it) changes a task, the analysis
\* result or the follow-up questions.
C4_StaleRunDiscarded ==
  [][ \A r \in RunIds :
        (Superseded(r) /\ runs'[r] # runs[r])
          => UNCHANGED <<agents, analysisResult, followUpQuestions>> ]_vars

\* C5: a Pending task has output and error null; a Success task has an
\* output and no error; an Error task has an error and no output.
C5_OutputErrorExclusive ==
  \A k \in 1..Len(agents) :
    LET a == agents[k]
    IN  /\ a.status = Pending => (a.output = Null /\ a.error = Null)
        /\ a.status = Success => (a.output # Null /\ a.error = Null)
        /\ a.status = Error => (a.error # Null /\ a.output = Null)

\* the step leaves every task at its position
SameTasks ==
  /\ Len(agents') = Len(agents)
  /\ \A k \in 1..Len(agents) : agents'[k].id = agents[k].id

\* the step is the start of a run (lines 273-279)
RunStarts == \E r \in RunIds : runs[r].pc = "idle" /\ runs'[r].pc = "loop"

\* C6: a task's status changes only Pending -> Running, Running -> Success
\* or Running -> Error, or to Pending by the reset at the start of a run.
C6_StatusTransitions ==
  [][ SameTasks =>
        \A k \in 1..Len(agents) :
          LET a == agents[k].status
              b == agents'[k].status
          IN  \/ a = b
              \/ a = Pending /\ b = Running
              \/ a = Running /\ b \in Terminal
              \/ b = Pending /\ RunStarts ]_vars

\* C9: while a run is in flight, only steps of the runner change the task
\* list (every step of the runner moves a run; no other handler does).
C9_OnlyRunnerWrites ==
  [][ (InFlight # {} /\ agents' # agents) => runs' # runs ]_vars

\* the step is the failure of the provider call of run r (lines 307-312)
Fails(r) == runs[r].pc = "awaitAgent" /\ runs'[r].pc = "aggregate"

\* C10: the provider is called at most once for each task of a run, and the
\* failure of a task's call changes that one task only, in the task list
\* and in the run's own list.
C10_FailureIsLocal ==
  [][ \A r \in RunIds :
        /\ \A m, n \in 1..Len(runs'[r].called) :
             m # n => runs'[r].called[m] # runs'[r].called[n]
        /\ Fails(r) =>
             /\ SameTasks
             /\ Cardinality({k \in 1..Len(agents) : agents'[k] # agents[k]}) <= 1
             /\ \A j \in 1..Len(runs[r].finalAgentsState) :
                  j # runs[r].i =>
                    runs'[r].finalAgentsState[j] = runs[r].finalAgentsState[j] ]_vars

\* the text has a fenced block: an opening fence and a closing fence after it
HasBlock(t) ==
  \E o, c \in 1..Len(t) : o < c /\ t[o] \in OpeningFences /\ t[c] \in ClosingFences

\* extraction fails on the text: no fenced block, or the contents of its
\* first block do not decode
ExtractionFails(t) ==
  \/ ~HasBlock(t)
  \/ ~JsonOk(SubSeq(t, FirstOpen(t) + 1, FirstCloseAfter(t, FirstOpen(t)) - 1))

\* the step is the return of the provider call of run r's current task
Resolves(r) == runs[r].pc = "awaitAgent" /\ runs'[r].pc = "loop"

\* C11: when the provider call of a task returns a text on which the
\* extraction fails, the task becomes Success with that text as output,
\* outputJson null and error null, in the run's list and in the displayed
\* list, and the run goes on to the next task.
C11_ExtractionFailureIsSuccess ==
  [][ \A r \in RunIds :
        Resolves(r) =>
          LET k == runs[r].i
              raw == runs'[r].agentOutputsForFollowup[Len(runs'[r].agentOutputsForFollowup)].output
              done == runs'[r].finalAgentsState[k]
          IN  ExtractionFails(raw.v) =>
                /\ done.status = Success
                /\ done.output = raw
                /\ done.outputJson = Null
                /\ done.error = Null
                /\ \A j \in 1..Len(agents') :
                     agents'[j].id = done.id =>
                       /\ agents'[j].status = Success
                       /\ agents'[j].output = raw
                       /\ agents'[j].outputJson = Null
                       /\ agents'[j].error = Null
                /\ runs'[r].failedAt = 0
                /\ runs'[r].i = k + 1 ]_vars

\* C11 witness: both tasks of a run are Success, the first after a block
\* that is no JSON, the second after a text without a block
C11_Witness ==
  /\ Len(agents) = 2
  /\ agents[1].status = Success /\ agents[1].output = Text(<<"OPEN", J_BAD, "CLOSE", "w">>)
  /\ agents[1].outputJson = Null
  /\ agents[2].status = Success /\ agents[2].output = Text(<<"w">>)
  /\ agents[2].outputJson = Null

\* C12: when the follow-up call of a run fails, no task changes, the
\* analysis result stays as the aggregation left it, followUpQuestions is
\* null afterwards, and the run ends normally (isProcessing false).
C12_FollowUpFailureIsSilent ==
  [][ \A r \in RunIds :
        FollowUpReject(r) =>
          /\ agents' = agents
          /\ analysisResult' = analysisResult
          /\ followUpQuestions' = Null
          /\ runs'[r].pc = "done"
          /\ ~isProcessing' ]_vars

\* the step is run r's aggregation (lines 316-338)
Aggregates(r) == runs[r].pc = "aggregate" /\ runs'[r].pc # "aggregate"

\* no task of the list is Success
NoneSucceeded(list) == \A k \in 1..Len(list) : list[k].status # Success

\* C13: when no task of a run's final list is Success, the aggregation
\* stores nothing (analysisResult is null after it) and the run ends
\* without making the follow-up call.
C13_ZeroSuccessNoAggregate ==
  [][ \A r \in RunIds :
        (Aggregates(r) /\ NoneSucceeded(runs[r].finalAgentsState)) =>
          /\ analysisResult' = Null
          /\ runs'[r].pc = "done" ]_vars

\* the name and output of every Success task of the list, in list order
SucceededOutputs(list) ==
  LET ok == SelectSeq(list, LAMBDA a : a.status = Success)
  IN  [k \in 1..Len(ok) |-> [name |-> ok[k].name, output |-> ok[k].output]]

\* run r has made its follow-up call and awaits it
AwaitsFollowUp(r) == runs[r].pc = "awaitFollowUp"

\* the loop of run r has ended: past the last task, or left by a failure
LoopEnded(r) ==
  \/ runs[r].i > Len(runs[r].agentsToRun)
  \/ runs[r].failedAt > 0

\* C14: a run makes its follow-up call at most once (from its aggregation
\* step only, and after the call the run only ends), after its loop has
\* ended with none of its tasks Running, and the outputs it passes are those
\* of exactly the Success tasks of its final list, in list order.
C14_FollowUpOnceFromSuccesses ==
  [][ \A r \in RunIds :
        /\ (AwaitsFollowUp(r)' /\ ~AwaitsFollowUp(r)) => runs[r].pc = "aggregate"
        /\ AwaitsFollowUp(r) => runs'[r].pc \in {"awaitFollowUp", "done"}
        /\ AwaitsFollowUp(r)' =>
             /\ LoopEnded(r)'
             /\ \A k \in 1..Len(runs'[r].finalAgentsState) :
                  runs'[r].finalAgentsState[k].status # Running
             /\ (InFlight' = {r}) => RunningAt(agents') = {}
             /\ runs'[r].agentOutputsForFollowup
                  = SucceededOutputs(runs'[r].finalAgentsState) ]_vars

\* run r is the run started last
LatestRun(r) == r \in Started /\ ~Superseded(r)

\* run r has started and has not yet run its aggregation
BeforeAggregation(r) == runs[r].pc \in {"loop", "awaitAgent", "aggregate"}

\* run r has started and its follow-up call, if any, has not returned
BeforeFollowUp(r) == BeforeAggregation(r) \/ AwaitsFollowUp(r)

\* the Success tasks of the list
SucceededTasks(list) == SelectSeq(list, LAMBDA a : a.status = Success)

\* C15: from the start of a run until its aggregation analysisResult is
\* null, and until its follow-up call returns followUpQuestions is null; a
\* value stored later comes from the aggregation (the follow-up call) of the
\* run started last and is computed from that run's Success tasks.
C15_ResultsDiscardedAtRunStart ==
  [][ /\ \A r \in RunIds :
           /\ BeforeAggregation(r)' => analysisResult' = Null
           /\ BeforeFollowUp(r)' => followUpQuestions' = Null
      /\ (analysisResult' # analysisResult /\ analysisResult' # Null) =>
           \E r \in RunIds :
             /\ LatestRun(r) /\ Aggregates(r)
             /\ analysisResult' = NewAnalysis(SucceededTasks(runs[r].finalAgentsState))
      /\ (followUpQuestions' # followUpQuestions /\ followUpQuestions' # Null) =>
           \E r \in RunIds :
             /\ LatestRun(r) /\ AwaitsFollowUp(r) /\ runs'[r].pc = "done"
             /\ runs[r].agentOutputsForFollowup
                  = SucceededOutputs(runs[r].finalAgentsState) ]_vars

\* ----- properties of the aggregation --------------------------------------
\* the first Success task of the list with the given name, Null when none
FirstSucceededNamed(list, name) ==
  LET hits == SelectSeq(list, LAMBDA a : a.status = Success /\ a.name = name)
  IN  IF hits = << >> THEN Null ELSE hits[1]

\* the task has a structured output with a sentiment field
HasSentimentField(a) ==
  /\ a # Null
  /\ a.outputJson.kind = "obj"
  /\ "sentiment" \in DOMAIN a.outputJson.f

\* the spellings of the two labels, whatever the case of their letters
PositiveSpellings == {"positive", "Positive", "POSITIVE"}
NegativeSpellings == {"negative", "Negative", "NEGATIVE"}

\* the tally the claim gives for a sentiment value
ExpectedTally(v) ==
  IF v.kind = "str" /\ v.s \in PositiveSpellings
  THEN [positive |-> 1, negative |-> 0, neutral |-> 0]
  ELSE IF v.kind = "str" /\ v.s \in NegativeSpellings
  THEN [positive |-> 0, negative |-> 1, neutral |-> 0]
  ELSE [positive |-> 0, negative |-> 0, neutral |-> 1]

\* the stored analysis result has the tally for value v, with buckets in
\* {0, 1} that sum to 1
StoresTallyOf(result, v) ==
  /\ result # Null
  /\ result.sentiment # Null
  /\ result.sentiment.t = ExpectedTally(v)
  /\ \A b \in {"positive", "negative", "neutral"} : result.sentiment.t[b] \in {0, 1}
  /\ result.sentiment.t.positive + result.sentiment.t.negative
       + result.sentiment.t.neutral = 1

\* C16: the aggregation of a run whose Success task named "Sentiment
\* Analyzer" has a structured output with a sentiment value stores the tally
\* of that value: positive or negative for these labels in any case of
\* letters, neutral for anything else; the buckets are in {0, 1} and sum to 1.
C16_SentimentTally ==
  [][ \A r \in RunIds :
        LET sa == FirstSucceededNamed(runs[r].finalAgentsState, "Sentiment Analyzer")
        IN  (Aggregates(r) /\ HasSentimentField(sa)) =>
              StoresTallyOf(analysisResult', sa.outputJson.f.sentiment) ]_vars

\* the value is none of null, "" and 0
TruthyValue(v) == v # Null /\ v # JStr("") /\ v # JNum(0)

\* C16 as amended: the same for a sentiment value that is truthy.
C16_SentimentTallyOfTruthyValue ==
  [][ \A r \in RunIds :
        LET sa == FirstSucceededNamed(runs[r].finalAgentsState, "Sentiment Analyzer")
        IN  (Aggregates(r) /\ HasSentimentField(sa)
               /\ TruthyValue(sa.outputJson.f.sentiment)) =>
              StoresTallyOf(analysisResult', sa.outputJson.f.sentiment) ]_vars

\* C16 witness: the tally stored for "NEGATIVE" by a finished run
C16_Witness ==
  /\ runs[1].pc = "done"
  /\ \E k \in 1..Len(agents) :
       /\ agents[k].name = "Sentiment Analyzer"
       /\ agents[k].status = Success
       /\ agents[k].outputJson = JObj([sentiment |-> JStr("NEGATIVE")])
  /\ analysisResult # Null
  /\ analysisResult.sentiment # Null
  /\ analysisResult.sentiment.t.negative = 1

\* the element is a mapping with a string name and a string type
WellFormedEntity(e) ==
  /\ e.kind = "obj"
  /\ "name" \in DOMAIN e.f /\ e.f.name.kind = "str"
  /\ "type" \in DOMAIN e.f /\ e.f.type.kind = "str"

\* the task has a sequence as structured output
HasSequence(a) == a # Null /\ a.outputJson.kind = "arr"

\* C17: the aggregation of a run whose Success task named "Entity
\* Extractor" has a sequence as structured output computes as entities the
\* well-formed elements of that sequence in their order; they are stored
\* whenever there is at least one, and a sequence without any makes no
\* entity appear and does not fail the run.
C17_EntityFilter ==
  [][ \A r \in RunIds :
        LET ee == FirstSucceededNamed(runs[r].finalAgentsState, "Entity Extractor")
        IN  (Aggregates(r) /\ HasSequence(ee)) =>
              LET kept == SelectSeq(ee.outputJson.items, WellFormedEntity)
              IN  /\ kept # << >> =>
                       /\ analysisResult' # Null
                       /\ analysisResult'.entities # Null
                       /\ analysisResult'.entities.items = kept
                  /\ kept = << >> =>
                       \/ analysisResult' = Null
                       \/ analysisResult'.entities = Null
                       \/ analysisResult'.entities.items = << >>
                  /\ runs'[r].pc = "awaitFollowUp" ]_vars

\* C17 witness: of five elements, three of them malformed, the two
\* well-formed ones are stored in their order
C17_Witness ==
  /\ analysisResult # Null
  /\ analysisResult.entities # Null
  /\ analysisResult.entities.items =
       << JObj([name |-> JStr("B"), type |-> JStr("Loc")]),
          JObj([name |-> JStr("A"), type |-> JStr("Org")]) >>

\* the task has a usable sentiment: a sentiment field with a truthy value
HasUsableSentiment(a) ==
  HasSentimentField(a) /\ TruthyValue(a.outputJson.f.sentiment)

\* the task has a usable entity sequence: one with a well-formed element
HasUsableEntities(a) ==
  HasSequence(a) /\ SelectSeq(a.outputJson.items, WellFormedEntity) # << >>

\* C18: the result stored by an aggregation has a sentiment only when a
\* usable sentiment task was found and entities only when a usable,
\* non-empty entity sequence was found (its entities are never an empty
\* sequence); when neither is found nothing is stored.
C18_NullUnlessFound ==
  [][ \A r \in RunIds :
        LET sa == FirstSucceededNamed(runs[r].finalAgentsState, "Sentiment Analyzer")
            ee == FirstSucceededNamed(runs[r].finalAgentsState, "Entity Extractor")
            res == analysisResult'
        IN  Aggregates(r) =>
              /\ (~HasUsableSentiment(sa) /\ ~HasUsableEntities(ee)) => res = Null
              /\ res # Null =>
                   /\ res.sentiment # Null => HasUsableSentiment(sa)
                   /\ res.entities # Null =>
                        (HasUsableEntities(ee) /\ res.entities.items # << >>)
                   /\ res.sentiment # Null \/ res.entities # Null ]_vars

\* C19: what an aggregation stores comes from the first Success task named
\* exactly "Sentiment Analyzer" and the first Success task named exactly
\* "Entity Extractor" of the run's final list, and from no other task: when
\* that first task has nothing usable, nothing is taken from a later one.
C19_FirstSuccessByExactName ==
  [][ \A r \in RunIds :
        LET sa == FirstSucceededNamed(runs[r].finalAgentsState, "Sentiment Analyzer")
            ee == FirstSucceededNamed(runs[r].finalAgentsState, "Entity Extractor")
            res == analysisResult'
        IN  Aggregates(r) =>
              /\ (res # Null /\ res.sentiment # Null) =>
                   /\ HasUsableSentiment(sa)
                   /\ res.sentiment.t = ExpectedTally(sa.outputJson.f.sentiment)
              /\ (res # Null /\ res.entities # Null) =>
                   /\ HasSequence(ee)
                   /\ res.entities.items = SelectSeq(ee.outputJson.items, WellFormedEntity)
              /\ ~HasUsableSentiment(sa) => (res = Null \/ res.sentiment = Null)
              /\ ~HasSequence(ee) => (res = Null \/ res.entities = Null) ]_vars

\* C19 witness: two Success tasks named "Sentiment Analyzer", the first
\* without structured output and the second with a sentiment, and no
\* analysis result stored by the finished run
C19_Witness ==
  /\ runs[1].pc = "done"
  /\ Len(agents) = 2
  /\ agents[1].id # agents[2].id
  /\ \A k \in 1..2 : agents[k].name = "Sentiment Analyzer" /\ agents[k].status = Success
  /\ agents[1].outputJson = Null
  /\ agents[2].outputJson = JObj([sentiment |-> JStr("Positive")])
  /\ analysisResult = Null

\* C20: the document content of a run is the content loaded when the run
\* starts, it does not change while the run is in flight, and every provider
\* call of the run (each task's call, the follow-up call) is given it,
\* whatever document is loaded at the time of the call.
C20_ContentFixedPerRun ==
  [][ \A r \in RunIds :
        /\ (runs[r].pc = "idle" /\ runs'[r].pc # "idle") =>
             runs'[r].content = documentFile.content
        /\ (r \in InFlight /\ r \in InFlight') =>
             runs'[r].content = runs[r].content
        /\ \A n \in 1..Len(runs'[r].passed) :
             runs'[r].passed[n].content = runs'[r].content ]_vars

\* C20 witness: a run has made its follow-up call, and one of its calls
\* was made while another document than the run's was loaded
C20_Witness ==
  \E r \in RunIds :
    /\ AwaitsFollowUp(r)
    /\ Len(runs[r].passed) >= 2
    /\ \E n \in 1..Len(runs[r].passed) :
         runs[r].passed[n].live # runs[r].passed[n].content

\* ----- properties of a run whose provider always succeeds -----------------
\* every task of the list is Success with an output and no error
AllSucceeded(list) ==
  \A k \in 1..Len(list) :
    /\ list[k].status = Success
    /\ list[k].output # Null
    /\ list[k].error = Null

\* the ids of the tasks of a list
IdsOf(list) == {list[k].id : k \in 1..Len(list)}

\* the listed tasks that run r has taken (by id)
TasksOfRun(list, r) ==
  SelectSeq(list, LAMBDA a : a.id \in IdsOf(runs[r].agentsToRun))

\* run r returns in this step
Finishes(r) == r \in InFlight /\ runs'[r].pc = "done"

\* C21: with a provider that always succeeds, a run that began (from the
\* reset list, all Pending and nulled, and a non-empty document) and was not
\* superseded ends with every one of its tasks Success, with a non-null
\* output and a null error, in its own final list and in the displayed list.
C21_AllSucceedRoundTrip ==
  [][ \A r \in RunIds :
        (Finishes(r) /\ LatestRun(r)) =>
           /\ runs[r].finalAgentsState # <<>>
           /\ AllSucceeded(runs[r].finalAgentsState)
           /\ AllSucceeded(TasksOfRun(agents', r)) ]_vars

\* ----- properties of the structured-output extraction ---------------------
\* the contents of the first fenced block of a text that has one: what lies
\* between the earliest opening fence and the earliest closing fence after it
FirstBlock(t) ==
  LET o == CHOOSE k \in 1..Len(t) :
             /\ t[k] \in OpeningFences
             /\ \E c \in (k+1)..Len(t) : t[c] \in ClosingFences
             /\ \A j \in 1..(k-1) : t[j] \notin OpeningFences
      c == CHOOSE k \in (o+1)..Len(t) :
             t[k] \in ClosingFences /\ \A j \in (o+1)..(k-1) : t[j] \notin ClosingFences
  IN  SubSeq(t, o + 1, c - 1)

\* the tasks of the list whose last provider call returned the text
WithOutput(list, raw) == {k \in 1..Len(list) : list[k].output = raw}

\* C22: the extraction never raises (the task whose call returned becomes
\* Success and the run goes on); it gives null on a text without a fenced
\* block and on a text whose first block does not decode, and the decoded
\* value on a text whose first block decodes; and the same text always gives
\* the same result, in whichever task and list it was extracted.
C22_ExtractTotalAndStable ==
  [][ \A r \in RunIds :
        Resolves(r) =>
          LET k == runs[r].i
              raw == runs'[r].agentOutputsForFollowup[Len(runs'[r].agentOutputsForFollowup)].output
              done == runs'[r].finalAgentsState[k]
          IN  /\ done.status = Success /\ done.error = Null /\ done.output = raw
              /\ runs'[r].failedAt = 0
              /\ ~HasBlock(raw.v) => done.outputJson = Null
              /\ (HasBlock(raw.v) /\ ~JsonOk(FirstBlock(raw.v))) => done.outputJson = Null
              /\ (HasBlock(raw.v) /\ JsonOk(FirstBlock(raw.v))) =>
                   /\ done.outputJson # Null
                   /\ done.outputJson = JsonValue(FirstBlock(raw.v))
              /\ \A j \in WithOutput(agents', raw) : agents'[j].outputJson = done.outputJson
              /\ \A j \in WithOutput(runs'[r].finalAgentsState, raw) :
                   runs'[r].finalAgentsState[j].outputJson = done.outputJson ]_vars

\* C22 witness: two tasks got the same text with a block that decodes, and
\* both hold its value
C22_Witness ==
  /\ Len(agents) = 2
  /\ agents[1].id # agents[2].id
  /\ agents[1].output = Text(<<"w", "OPEN", J_ENT, "CLOSE">>)
  /\ agents[2].output = agents[1].output
  /\ agents[1].outputJson = JsonValue(<<J_ENT>>)
  /\ agents[2].outputJson = JsonValue(<<J_ENT>>)

\* the text has more than one opening fence, so more than one fenced block
SeveralBlocks(t) ==
  HasBlock(t) /\ Cardinality({k \in 1..Len(t) : t[k] \in OpeningFences}) > 1

\* C28: when the text a task's call returned has several fenced blocks,
\* outputJson is the decoded first block, and it is null when the first
\* block does not decode, whatever the later blocks hold.
C28_FirstBlockOnly ==
  [][ \A r \in RunIds :
        Resolves(r) =>
          LET k == runs[r].i
              raw == runs'[r].agentOutputsForFollowup[Len(runs'[r].agentOutputsForFollowup)].output
              done == runs'[r].finalAgentsState[k]
              first == FirstBlock(raw.v)
              expected == IF JsonOk(first) THEN JsonValue(first) ELSE Null
          IN  SeveralBlocks(raw.v) =>
                /\ done.outputJson = expected
                /\ \A j \in 1..Len(agents') :
                     agents'[j].id = done.id => agents'[j].outputJson = expected ]_vars

\* C28 witness: one task got a text whose first block does not decode and
\* whose second does, the other a text with two blocks that decode
C28_Witness ==
  /\ Len(agents) = 2
  /\ agents[1].output = Text(<<"OPEN", J_BAD, "CLOSE", "w", "OPEN", J_POS, "CLOSE">>)
  /\ agents[1].outputJson = Null
  /\ agents[2].output = Text(<<"OPEN", J_NEG, "NLOPEN", J_POS, "CLOSE">>)
  /\ agents[2].outputJson = JsonValue(<<J_NEG>>)

\* ----- properties of the task list under a run ----------------------------
\* the step is taken by a run: it starts one, or a run in flight moves on
RunnerStep == \E r \in RunIds : runs'[r] # runs[r]

\* the definition of a task: what the user gave it
DefinitionOf(a) == [id |-> a.id, name |-> a.name, prompt |-> a.prompt, model |-> a.model]

\* C25: a step of a run changes no task's id, name, prompt or model and
\* neither the length nor the order of the task list; so a prompt or a model
\* the user set while the run is in flight is still there after every later
\* write of the run.
C25_RunChangesResultsOnly ==
  [][ RunnerStep =>
        /\ Len(agents') = Len(agents)
        /\ \A k \in 1..Len(agents) : DefinitionOf(agents'[k]) = DefinitionOf(agents[k]) ]_vars

\* C25 witness: the run wrote the result of a task whose prompt or model the
\* user had changed after the run took its snapshot
C25_Witness ==
  \E r \in RunIds :
    /\ runs[r].pc = "awaitFollowUp"
    /\ Len(agents) = 2 /\ Len(runs[r].agentsToRun) = 2
    /\ agents[2].status = Success
    /\ agents[2].id = runs[r].agentsToRun[2].id
    /\ DefinitionOf(agents[2]) # DefinitionOf(runs[r].agentsToRun[2])

\* run r is in flight before the step and takes it
StepOfRunInFlight(r) == r \in InFlight /\ runs'[r] # runs[r]

C27_IdsUnique ==
  \A j, k \in 1..Len(agents) : j # k => agents[j].id # agents[k].id

\* isProcessing is true whenever a run is in flight
ProcessingWhileInFlight == InFlight # {} => isProcessing

\* at most one run is in flight
AtMostOneRun == Cardinality(InFlight) <= 1

\* no task is Running while isProcessing is false
NoRunningWhenIdle == ~isProcessing => RunningAt(agents) = {}

\* C29: isProcessing is true in every state in which a run is in flight, at
\* most one run is in flight, and no task is Running while isProcessing is
\* false, whatever the user loads or clears during a run.
C29_ProcessingGuardsRuns ==
  /\ ProcessingWhileInFlight
  /\ AtMostOneRun
  /\ NoRunningWhenIdle

\* ----- properties of the follow-up questions ------------------------------
\* the positions at which a line of the text begins
LineStarts(s) == {k \in 1..(Len(s) + 1) : k = 1 \/ s[k - 1] = "\n"}

\* the position of the last character of the line that begins at k
LineEnd(s, k) ==
  IF \E j \in k..Len(s) : s[j] = "\n"
  THEN (CHOOSE j \in k..Len(s) : s[j] = "\n" /\ \A n \in k..(j-1) : s[n] # "\n") - 1
  ELSE Len(s)

\* the lines that are not blank: they hold more than spaces
NonBlankStarts(s) ==
  {k \in LineStarts(s) : \E j \in k..LineEnd(s, k) : s[j] # " "}

\* the line that begins at k, without a leading "- "
QuestionAt(s, k) ==
  IF k + 1 <= LineEnd(s, k) /\ s[k] = "-" /\ s[k + 1] = " "
  THEN SubSeq(s, k + 2, LineEnd(s, k))
  ELSE SubSeq(s, k, LineEnd(s, k))

\* C23: the follow-up text is rendered as one item for each of its lines
\* that is not blank, in the order of the lines, each without its leading
\* "- "; this is so for any number of lines (none, fewer or more than
\* three), and "- Q1\n- Q2\n\n- Q3" gives exactly Q1, Q2, Q3.
C23_FollowUpItems ==
  followUpQuestions # Null =>
    LET s == followUpQuestions.v
        items == FollowUpItems(followUpQuestions)
    IN  /\ Len(items) = Cardinality(NonBlankStarts(s))
        /\ \A k \in NonBlankStarts(s) :
             items[Cardinality({j \in NonBlankStarts(s) : j <= k})] = QuestionAt(s, k)
        /\ s = ThreeQuestions => items = << <<"Q1">>, <<"Q2">>, <<"Q3">> >>

\* C23 witness: the follow-up call returned the text with three questions
\* and a blank line
C23_Witness ==
  /\ followUpQuestions = Text(ThreeQuestions)
  /\ runs[1].pc = "done"

\* ----- properties of the document ------------------------------------------
\* the document state is unset: type EMPTY, empty content, no pdf handle, no
\* selected pages
DocumentUnset == documentFile = NoDocument /\ selectedPages = {}

\* in this step handleFileChange begins to read a file as load l
BeginsLoad(l) == loads[l].pc = "idle" /\ loads'[l].pc # "idle"

\* in this step getDocument fails for load l
PdfLoadFails(l) == loads[l].pc = "parsing" /\ loads'[l].pc = "failed"

\* C24: a PDF load leaves the document state unset when it begins, and when
\* getDocument fails for it the load sets nothing: type, content, pdf handle
\* and selected pages are as before the failure, so still unset unless
\* something else has written them meanwhile; isLoadingFile is cleared.
C24_FailedPdfLoadSetsNothing ==
  [][ \A l \in LoadIds :
        /\ BeginsLoad(l) => DocumentUnset'
        /\ PdfLoadFails(l) =>
             /\ documentFile' = documentFile
             /\ selectedPages' = selectedPages
             /\ DocumentUnset => DocumentUnset'
             /\ ~isLoadingFile' ]_vars

\* C24 witness: a document had been pasted; then a PDF was chosen and
\* getDocument failed for it: no document, no pages, no loading indicator
C24_Witness ==
  /\ loads[1] = [pc |-> "failed", isPdf |-> TRUE]
  /\ loads[2].pc = "idle"
  /\ used = 1
  /\ DocumentUnset
  /\ ~isLoadingFile

\* in this step OCR pass o ends and writes its text
OcrEnds(o) == ocrs[o].pc = "page" /\ ocrs'[o].pc = "done"

\* C30: the end of an OCR pass changes neither the content nor the type of
\* the document when the document is no longer the PDF the pass was started
\* on (another one was loaded or pasted, or the document was cleared).
C30_OcrWritesOwnDocumentOnly ==
  [][ \A o \in OcrIds :
        (OcrEnds(o) /\ documentFile.pdfDoc # ocrs[o].pdfDoc) =>
           /\ documentFile'.content = documentFile.content
           /\ documentFile'.type = documentFile.type ]_vars

\* ----- C31 ----------------------------------------------------------------
\* the (document, page, zoom) the viewer is on, and the one a render was
\* begun for
Latest == <<documentFile.pdfDoc, currentPage, pdfZoom>>
RenderedFor(r) == <<renders[r].pdfDoc, renders[r].page, renders[r].zoom>>
ImageOf(t) == PageImage(t[1], t[2], t[3])

\* a render begun for an earlier (document, page, zoom) ends in this step:
\* the viewer has moved on since the render began
StaleRenderEnds(r) ==
  /\ renders[r].pc \in {"getPage", "render"}
  /\ renders'[r].pc = "done"
  /\ \/ renders[r].isCancelled
     \/ ~ViewerShown
     \/ RenderedFor(r) # Latest

StaleRenderSetsNothing ==
  \A r \in RenderIds :
    StaleRenderEnds(r) => UNCHANGED <<currentPageDataUrl, isPageRendering>>

\* the image of the viewer comes from a render of the latest (document,
\* page, zoom)
ImageIsLatest ==
  (ViewerShown /\ currentPageDataUrl # Null) => currentPageDataUrl = ImageOf(Latest)

\* the same, once the page is no longer being rendered
SettledImageIsLatest == ~isPageRendering => ImageIsLatest

\* while the viewer says the page is being rendered, a render of the latest
\* (document, page, zoom) is under way
RenderingMeansLatestUnderWay ==
  (ViewerShown /\ isPageRendering) =>
    \E r \in RenderIds : /\ renders[r].pc \in {"getPage", "render"}
                         /\ ~renders[r].isCancelled
                         /\ RenderedFor(r) = Latest

====
